---------------------------- MODULE Spec2Model ----------------------------
(***************************************************************************)
(* A model of SUAVE's wing_segmented_planform (Methods/Geometry/           *)
(* Two_Dimensional/Planform/wing_segmented_planform.py).                   *)
(*                                                                         *)
(* Numbers.  The routine works on IEEE doubles.  A number is modelled as   *)
(* an exact rational [n, d] with d > 0 in lowest terms, extended by the    *)
(* three non-finite doubles the routine can produce: d = 0 with n = 0 is   *)
(* NaN, n = 1 is +inf, n = -1 is -inf.  Rounding is not modelled (every    *)
(* input of the model is a small dyadic or decimal rational); the sign of  *)
(* a zero is not modelled (x/0 takes the sign of x).                       *)
(*                                                                         *)
(* Angles.  An angle is modelled by its tangent, [tan |-> number], an      *)
(* angle of the open interval (-pi/2, pi/2): np.tan reads the field,       *)
(* np.arctan builds the record, np.cos is defined on the angles whose      *)
(* cosine is rational (see Cos).                                           *)
(*                                                                         *)
(* Arrays.  A numpy array (or Python list) is a sequence, indexed from 1:  *)
(* Python's x[i] is x[i+1] here.                                           *)
(***************************************************************************)
EXTENDS Integers, Sequences, FiniteSets, TLC

VARIABLES wing, pc, frame, prev

vars == <<wing, pc, frame, prev>>

None == [none |-> TRUE]

\* ------------------------------------------------------------------------
\* Double arithmetic (exact rationals with NaN and the infinities)
\* ------------------------------------------------------------------------

Abs(x) == IF x < 0 THEN -x ELSE x

Sign(x) == IF x < 0 THEN -1 ELSE IF x > 0 THEN 1 ELSE 0

RECURSIVE GCD(_, _)
GCD(a, b) == IF b = 0 THEN a ELSE GCD(b, a % b)

\* the finite number n/d, d # 0, in lowest terms with a positive denominator
Q(n, d) ==
    LET g == GCD(Abs(n), Abs(d))
        s == IF d < 0 THEN -1 ELSE 1
    IN  [n |-> s * (n \div g), d |-> Abs(d) \div g]

NaN == [n |-> 0, d |-> 0]

Inf(s) == [n |-> s, d |-> 0]

Zero == [n |-> 0, d |-> 1]

One == [n |-> 1, d |-> 1]

IsFinite(x) == x.d # 0

IsNaN(x) == x.d = 0 /\ x.n = 0

IsZero(x) == x.d # 0 /\ x.n = 0

Neg(x) == [n |-> -x.n, d |-> x.d]

Add(x, y) ==
    IF IsNaN(x) \/ IsNaN(y) THEN NaN
    ELSE IF ~IsFinite(x) /\ ~IsFinite(y) THEN (IF x.n = y.n THEN x ELSE NaN)
    ELSE IF ~IsFinite(x) THEN x
    ELSE IF ~IsFinite(y) THEN y
    ELSE Q(x.n * y.d + y.n * x.d, x.d * y.d)

Sub(x, y) == Add(x, Neg(y))

Mul(x, y) ==
    IF IsNaN(x) \/ IsNaN(y) THEN NaN
    ELSE IF ~IsFinite(x) \/ ~IsFinite(y)
         THEN (IF IsZero(x) \/ IsZero(y) THEN NaN ELSE Inf(Sign(x.n) * Sign(y.n)))
    ELSE Q(x.n * y.n, x.d * y.d)

\* numpy's true division of doubles: x/0 is a warning, never an exception
Div(x, y) ==
    IF IsNaN(x) \/ IsNaN(y) THEN NaN
    ELSE IF ~IsFinite(x) /\ ~IsFinite(y) THEN NaN
    ELSE IF ~IsFinite(x) THEN Inf(x.n * (IF y.n < 0 THEN -1 ELSE 1))
    ELSE IF ~IsFinite(y) THEN Zero
    ELSE IF y.n = 0 THEN (IF x.n = 0 THEN NaN ELSE Inf(Sign(x.n)))
    ELSE Q(x.n * y.d, x.d * y.n)

Cube(x) == Mul(x, Mul(x, x))

Sq(x) == Mul(x, x)

\* x <= y on finite numbers
Leq(x, y) == x.n * y.d <= y.n * x.d

\* ------------------------------------------------------------------------
\* Angles
\* ------------------------------------------------------------------------

Angle(t) == [tan |-> t]

Tan(a) == a.tan

Arctan(x) == [tan |-> x]

\* cos(a) = 1/sqrt(1 + tan(a)^2), on the angles of the model where it is rational
Cos(a) ==
    IF a.tan = Zero THEN One
    ELSE IF a.tan = Q(3, 4) \/ a.tan = Q(-3, 4) THEN Q(4, 5)
    ELSE NaN

\* ------------------------------------------------------------------------
\* numpy arrays
\* ------------------------------------------------------------------------

\* x[1:]
From1(x) == IF Len(x) <= 1 THEN << >> ELSE SubSeq(x, 2, Len(x))

\* x[:-1]
ButLast(x) == IF Len(x) <= 1 THEN << >> ELSE SubSeq(x, 1, Len(x) - 1)

\* x[:-2]
ButLast2(x) == IF Len(x) <= 2 THEN << >> ELSE SubSeq(x, 1, Len(x) - 2)

\* numpy's broadcasting of two one-dimensional operands
Broadcastable(la, lb) == la = lb \/ la = 1 \/ lb = 1

BLen(a, b) ==
    IF Len(a) = Len(b) THEN Len(a) ELSE IF Len(a) = 1 THEN Len(b) ELSE Len(a)

\* the i-th operand element under broadcasting (NaN stands for an element of
\* an operation numpy refuses: the call then raises and the value is not used)
At(a, i) == IF Len(a) = 1 THEN a[1] ELSE IF i <= Len(a) THEN a[i] ELSE NaN

\* elementwise a + b, a - b, a * b, a / b of two arrays
VAdd(a, b) == [i \in 1..BLen(a, b) |-> Add(At(a, i), At(b, i))]

VSub(a, b) == [i \in 1..BLen(a, b) |-> Sub(At(a, i), At(b, i))]

VMul(a, b) == [i \in 1..BLen(a, b) |-> Mul(At(a, i), At(b, i))]

VDiv(a, b) == [i \in 1..BLen(a, b) |-> Div(At(a, i), At(b, i))]

\* scalar * array, array / scalar
SMul(s, a) == [i \in 1..Len(a) |-> Mul(s, a[i])]

VDivS(a, s) == [i \in 1..Len(a) |-> Div(a[i], s)]

\* a ** 3
VCube(a) == [i \in 1..Len(a) |-> Cube(a[i])]

\* np.tan, np.arctan, np.cos of an array (or list)
VTan(a) == [i \in 1..Len(a) |-> Tan(a[i])]

VArctan(a) == [i \in 1..Len(a) |-> Arctan(a[i])]

VCos(a) == [i \in 1..Len(a) |-> Cos(a[i])]

\* np.sum (0.0 on an empty array)
RECURSIVE Sum(_)
Sum(a) == IF Len(a) = 0 THEN Zero ELSE Add(Sum(ButLast(a)), a[Len(a)])

\* np.cumsum
CumSum(a) == [i \in 1..Len(a) |-> Sum(SubSeq(a, 1, i))]

\* 1 + sym, the Python bool read as 0 or 1
OnePlus(sym) == IF sym THEN Q(2, 1) ELSE One

\* x[i] of the loop of line 144 (NaN stands for an index past the end: the call
\* then raises IndexError and the value is not used)
Get(a, i) == IF i <= Len(a) THEN a[i] ELSE NaN

GetAngle(a, i) == IF i <= Len(a) THEN a[i] ELSE Angle(NaN)

\* ------------------------------------------------------------------------
\* segment_centroid
\* ------------------------------------------------------------------------

segment_centroid(le_sweep, seg_span, dx, dy, dz, taper, A, mac, dihedral) ==
    LET cy == Mul(Div(seg_span, Q(6, 1)),
                  Div(Add(One, Mul(Q(2, 1), taper)), Add(One, taper)))
        cx == Add(Mul(mac, Q(1, 4)), Mul(cy, Tan(le_sweep)))
        cz == Mul(cy, Tan(dihedral))
    IN  <<Add(cx, dx), Add(cy, dy), Add(cz, dz)>>

\* ------------------------------------------------------------------------
\* wing_segmented_planform: pieces
\* ------------------------------------------------------------------------

\* the segment data pulled into lists, in the order of wing.Segments
SegField(w, i) ==
    LET seg == w.Segments[i]
    IN  [span_loc |-> seg.percent_span_location,
         twist    |-> seg.twist,
         chord    |-> seg.root_chord_percent,
         sweep    |-> seg.sweeps.quarter_chord,
         t_c      |-> seg.thickness_to_chord,
         dihedral |-> seg.dihedral_outboard]

\* the area of each panel
PanelAreas(RC, lengths_dim, chords) ==
    SMul(RC, VSub(VMul(lengths_dim, ButLast(chords)),
                  VDivS(VMul(VSub(ButLast(chords), From1(chords)), lengths_dim),
                        Q(2, 1))))

\* the wing area
RefArea(As) == Mul(Sum(As), Q(2, 1))

\* the integral of chord^2 over each panel's nondimensional span, general formula
MacIntegral(A, B, C, span_locs) ==
    VDiv(VSub(VCube(VAdd(A, VMul(B, VSub(From1(span_locs), C)))),
              VCube(VAdd(A, VMul(B, VSub(ButLast(span_locs), C))))),
         SMul(Q(3, 1), B))

\* integral[np.isnan(integral)] = A[...]**2 * lengths_ndim[...]
PatchNaN(integral, A, lengths_ndim) ==
    [i \in 1..Len(integral) |->
        IF IsNaN(integral[i]) THEN Mul(Sq(At(A, i)), At(lengths_ndim, i))
        ELSE integral[i]]

\* the mean aerodynamic chord of each panel, as handed to segment_centroid
PanelMac(integral, lengths_dim, sym, As) ==
    VDiv(SMul(OnePlus(sym), VMul(integral, lengths_dim)), As)

\* the mean aerodynamic chord of the wing
WingMac(semispan, sym, ref_area, integral) ==
    Mul(Div(Mul(semispan, OnePlus(sym)), ref_area), Sum(integral))

\* a slip of DzDihedrals: dihedrals[:-1], the slice the total span uses
DzDihedralsAllButLast(dihedrals) == ButLast(dihedrals)

\* the dihedrals that enter the z offsets
DzDihedrals(dihedrals) == ButLast2(dihedrals)

\* a slip of RootOffsets: the zero appended, so that each sum takes in the
\* panel's own term
RootOffsetsInclusive(terms) == CumSum(terms \o <<Zero>>)

\* np.cumsum(np.concatenate([np.array([0]), terms]))
RootOffsets(terms) == CumSum(<<Zero>> \o terms)

\* np.dot(np.transpose(Cxys), As): a 3-vector, or the scalar 0.0 when there is
\* no panel (np.transpose([]) has shape (0,))
DotCentroids(Cxys, As) ==
    IF Len(Cxys) = 0 THEN [ndim |-> 0, v |-> <<Zero>>]
    ELSE [ndim |-> 1,
          v |-> [k \in 1..3 |->
                    Sum([i \in 1..Len(Cxys) |-> Mul(Cxys[i][k], At(As, i))])]]

\* aerodynamic_center = np.dot(...)/(ref_area/(1+sym))
AcNormalise(dot, ref_area, sym) ==
    [ndim |-> dot.ndim, v |-> VDivS(dot.v, Div(ref_area, OnePlus(sym)))]

\* a slip of ZeroSymmetricY: index 0, the x component, is zeroed
ZeroSymmetricX(ac, sym) ==
    IF sym /\ ac.ndim = 1 THEN [ac EXCEPT !.v[1] = Zero] ELSE ac

\* if sym == True: aerodynamic_center[1] = 0   (index 1 is the y component)
ZeroSymmetricY(ac, sym) ==
    IF sym /\ ac.ndim = 1 THEN [ac EXCEPT !.v[2] = Zero] ELSE ac

\* ------------------------------------------------------------------------
\* wing_segmented_planform: the local variables of one call, block by block.
\* Each block takes the record f of the locals assigned so far and adds its own.
\* ------------------------------------------------------------------------

\* Unpack; pull all the segment data into array format
Unpack(w) ==
    [span      |-> w.spans.projected,
     RC        |-> w.chords.root,
     sym       |-> w.symmetric,
     span_locs |-> [i \in 1..Len(w.Segments) |-> SegField(w, i).span_loc],
     twists    |-> [i \in 1..Len(w.Segments) |-> SegField(w, i).twist],
     chords    |-> [i \in 1..Len(w.Segments) |-> SegField(w, i).chord],
     sweeps    |-> [i \in 1..Len(w.Segments) |-> SegField(w, i).sweep],
     t_cs      |-> [i \in 1..Len(w.Segments) |-> SegField(w, i).t_c],
     dihedrals |-> [i \in 1..Len(w.Segments) |-> SegField(w, i).dihedral]]

\* Basic calcs
BasicCalcs(f) ==
    LET semispan     == Div(f.span, OnePlus(f.sym))
        lengths_ndim == VSub(From1(f.span_locs), ButLast(f.span_locs))
    IN  f @@ [semispan     |-> semispan,
              lengths_ndim |-> lengths_ndim,
              lengths_dim  |-> SMul(semispan, lengths_ndim),
              chords_dim   |-> SMul(f.RC, f.chords),
              tapers       |-> VDiv(From1(f.chords), ButLast(f.chords))]

\* the areas of each segment
SegmentAreas(f) == f @@ [As |-> PanelAreas(f.RC, f.lengths_dim, f.chords)]

\* wetted area, wing area, dihedral-corrected lengths
AreaSums(f) ==
    LET A_wets == VMul(SMul(Q(2, 1), [i \in 1..Len(ButLast(f.t_cs)) |->
                           Add(One, Mul(Q(1, 5), ButLast(f.t_cs)[i]))]), f.As)
        lens   == VDiv(f.lengths_dim, VCos(ButLast(f.dihedrals)))
    IN  f @@ [A_wets    |-> A_wets,
              wet_area  |-> Sum(A_wets),
              ref_area  |-> RefArea(f.As),
              lens      |-> lens,
              total_len |-> Mul(Sum(lens), OnePlus(f.sym))]

\* aspect ratio, mean geometric chord
Ratios(f) ==
    f @@ [AR  |-> Div(Sq(f.span), f.ref_area),
          mgc |-> Div(f.ref_area, f.span)]

\* A, B, C of the mean aerodynamic chord
MacCoefficients(f) ==
    LET A == ButLast(f.chords_dim)
    IN  f @@ [A |-> A,
              B |-> VDiv(VSub(A, From1(f.chords_dim)),
                         [i \in 1..Len(f.lengths_ndim) |-> Neg(f.lengths_ndim[i])]),
              C |-> ButLast(f.span_locs)]

\* the integral, by the general formula
GeneralIntegral(f) == f @@ [general |-> MacIntegral(f.A, f.B, f.C, f.span_locs)]

\* the integral, patched where the wing doesn't taper
PatchedIntegral(f) ==
    f @@ [integral |-> PatchNaN(f.general, f.A, f.lengths_ndim)]

\* panel_mac, MAC, effective taper ratio and tip chord, average t/c
MeanChords(f) ==
    LET lamda == Sub(Div(Mul(Q(2, 1), f.mgc), f.RC), One)
    IN  f @@ [panel_mac |-> PanelMac(f.integral, f.lengths_dim, f.sym, f.As),
              MAC       |-> WingMac(f.semispan, f.sym, f.ref_area, f.integral),
              lamda     |-> lamda,
              ct        |-> Mul(lamda, f.RC),
              t_c       |-> Div(Sum(VMul(f.As, ButLast(f.t_cs))),
                                Div(f.ref_area, Q(2, 1)))]

\* the segment leading edge sweeps
LeadingEdgeSweeps(f) ==
    LET r_offsets == VDivS(ButLast(f.chords_dim), Q(4, 1))
        t_offsets == VDivS(From1(f.chords_dim), Q(4, 1))
    IN  f @@ [r_offsets |-> r_offsets,
              t_offsets |-> t_offsets,
              le_sweeps |->
                  VArctan(VDiv(VSub(VAdd(r_offsets,
                                         VMul(VTan(ButLast(f.sweeps)),
                                              f.lengths_dim)),
                                    t_offsets),
                               f.lengths_dim))]

\* the effective sweeps
EffectiveSweeps(f) ==
    f @@ [c_4_sweep      |->
              Arctan(Sum(VMul(f.lengths_ndim, VTan(ButLast(f.sweeps))))),
          le_sweep_total |->
              Arctan(Sum(VMul(f.lengths_ndim, VTan(f.le_sweeps))))]

\* the offsets of each panel's root
PanelOffsets(f) ==
    f @@ [dxs |-> RootOffsets(VMul(VTan(ButLast(f.le_sweeps)),
                                   ButLast(f.lengths_dim))),
          dys |-> RootOffsets(ButLast(f.lengths_dim)),
          dzs |-> RootOffsets(VMul(VTan(DzDihedrals(f.dihedrals)),
                                   ButLast(f.lengths_dim)))]

\* the arguments of the call of segment_centroid for each panel
CentroidArgs(f) ==
    f @@ [centroid_args |->
            [i \in 1..Len(f.lengths_dim) |->
                [le_sweep |-> GetAngle(f.le_sweeps, i),
                 seg_span |-> Mul(f.lengths_dim[i], OnePlus(f.sym)),
                 dx       |-> Get(f.dxs, i),
                 dy       |-> Get(f.dys, i),
                 dz       |-> Get(f.dzs, i),
                 taper    |-> Get(f.tapers, i),
                 A        |-> Get(f.As, i),
                 mac      |-> Get(f.panel_mac, i),
                 dihedral |-> GetAngle(f.dihedrals, i)]]]

\* Cxys
Centroids(f) ==
    f @@ [Cxys |->
            [i \in 1..Len(f.centroid_args) |->
                LET c == f.centroid_args[i]
                IN  segment_centroid(c.le_sweep, c.seg_span, c.dx, c.dy, c.dz,
                                     c.taper, c.A, c.mac, c.dihedral)]]

\* the aerodynamic center before the y of a symmetric wing is zeroed
CenterBefore(f) ==
    f @@ [ac_before |-> AcNormalise(DotCentroids(f.Cxys, f.As), f.ref_area, f.sym)]

\* the aerodynamic center; total length for supersonics
CenterAndLength(f) ==
    f @@ [aerodynamic_center |-> ZeroSymmetricY(f.ac_before, f.sym),
          total_length |->
              IF Len(f.chords) = 0 THEN NaN
              ELSE Add(Mul(Tan(f.le_sweep_total), f.semispan),
                       Mul(f.chords[Len(f.chords)], f.RC))]

\* the lengths of the two operands of every elementwise operation of two arrays
Operands(f) ==
    {<<Len(f.lengths_dim), Len(ButLast(f.chords))>>,
     <<Len(ButLast(f.t_cs)), Len(f.As)>>,
     <<Len(f.lengths_dim), Len(ButLast(f.dihedrals))>>,
     <<Len(f.A), Len(f.lengths_ndim)>>,
     <<Len(f.B), Len(f.C)>>,
     <<Len(f.integral), Len(f.lengths_dim)>>,
     <<Len(f.integral), Len(f.As)>>,
     <<Len(ButLast(f.sweeps)), Len(f.lengths_dim)>>,
     <<Len(f.r_offsets), Len(f.lengths_dim)>>,
     <<Len(f.lengths_ndim), Len(f.le_sweeps)>>,
     <<Len(ButLast(f.le_sweeps)), Len(ButLast(f.lengths_dim))>>,
     <<Len(DzDihedrals(f.dihedrals)), Len(ButLast(f.lengths_dim))>>}

\* the arrays the loop over the panels indexes
Indexed(f) ==
    {Len(f.le_sweeps), Len(f.dxs), Len(f.dys), Len(f.dzs), Len(f.tapers),
     Len(f.As), Len(f.panel_mac), Len(f.dihedrals)}

\* the exception the call ends with, "none" when it returns
Raised(f) ==
    IF \E o \in Operands(f) : ~Broadcastable(o[1], o[2]) THEN "ValueError"
    ELSE IF \E l \in Indexed(f) : l < Len(f.lengths_dim) THEN "IndexError"
    ELSE IF Len(f.Cxys) # Len(f.As) THEN "ValueError"
    ELSE IF f.sym /\ f.ac_before.ndim = 0 THEN "TypeError"
    ELSE IF Len(f.chords) = 0 THEN "IndexError"
    ELSE "none"

Outcome(f) == f @@ [operands |-> Operands(f), raised |-> Raised(f)]

\* lines 55-107
LocalsToAreas(w) == Ratios(AreaSums(SegmentAreas(BasicCalcs(Unpack(w)))))

\* lines 109-135
LocalsToSweeps(w) ==
    EffectiveSweeps(LeadingEdgeSweeps(MeanChords(PatchedIntegral(
        GeneralIntegral(MacCoefficients(LocalsToAreas(w)))))))

\* lines 137-153, and how the call ends
Locals(w) ==
    Outcome(CenterAndLength(CenterBefore(Centroids(CentroidArgs(
        PanelOffsets(LocalsToSweeps(w)))))))

\* ------------------------------------------------------------------------
\* wing_segmented_planform: pack
\* ------------------------------------------------------------------------

PackAreas(areas, f) ==
    [areas EXCEPT !.reference = f.ref_area, !.wetted = f.wet_area]

PackSpans(spans, f) == [spans EXCEPT !.total = f.total_len]

\* a slip of PackChords: the effective tip chord written over chords.root
PackChordsOverRoot(chords, f) ==
    [chords EXCEPT !.mean_geometric = f.mgc, !.mean_aerodynamic = f.MAC,
                   !.root = f.ct]

PackChords(chords, f) ==
    [chords EXCEPT !.mean_geometric = f.mgc, !.mean_aerodynamic = f.MAC,
                   !.tip = f.ct]

PackSweeps(sweeps, f) ==
    [sweeps EXCEPT !.quarter_chord = f.c_4_sweep,
                   !.leading_edge = f.le_sweep_total]

Pack(w, f) ==
    [w EXCEPT !.areas = PackAreas(w.areas, f),
              !.aspect_ratio = f.AR,
              !.spans = PackSpans(w.spans, f),
              !.chords = PackChords(w.chords, f),
              !.taper = f.lamda,
              !.sweeps = PackSweeps(w.sweeps, f),
              !.thickness_to_chord = f.t_c,
              !.aerodynamic_center = f.aerodynamic_center,
              !.total_length = f.total_length]

\* ------------------------------------------------------------------------
\* The wings of the model
\* ------------------------------------------------------------------------

\* the largest number of segments of a wing
MaxSegs == 3

RootChords == {Q(2, 1), Q(3, 1)}

ProjectedSpans == {Q(6, 1)}

\* span fractions of the stations between the root (0) and the tip (1)
InnerLocs == {Q(1, 4), Q(1, 2), Q(3, 4)}

ChordFractions == {One, Q(1, 2)}

\* quarter-chord sweep, outboard dihedral, thickness to chord and twist of a
\* station: a flat unswept one and a swept one with dihedral
Attitudes ==
    {[sweep |-> Angle(Zero), dihedral |-> Angle(Zero), t_c |-> Q(1, 10),
      twist |-> Angle(Zero)],
     [sweep |-> Angle(Q(1, 2)), dihedral |-> Angle(Q(3, 4)), t_c |-> Q(3, 20),
      twist |-> Angle(Q(1, 10))]}

Segment(loc, chord, att) ==
    [percent_span_location |-> loc,
     twist                 |-> att.twist,
     root_chord_percent    |-> chord,
     sweeps                |-> [quarter_chord |-> att.sweep],
     thickness_to_chord    |-> att.t_c,
     dihedral_outboard     |-> att.dihedral]

\* strictly increasing span fractions of n stations: 0 first and, from two
\* stations on, 1 last
SpanLocations(n) ==
    {l \in [1..n -> {Zero, One} \cup InnerLocs] :
        /\ n >= 1 => l[1] = Zero
        /\ n >= 2 => l[n] = One
        /\ \A i \in 1..(n - 1) : Leq(l[i], l[i + 1]) /\ l[i] # l[i + 1]}

SegmentLists ==
    UNION {{[i \in 1..n |-> Segment(l[i], c[i], a[i])] :
              l \in SpanLocations(n), c \in [1..n -> ChordFractions],
              a \in [1..n -> Attitudes]} : n \in 0..MaxSegs}

\* a wing as its owner hands it over: the inputs set, the outputs not yet
NewWing(span, RC, sym, segs) ==
    [spans    |-> [projected |-> span, total |-> None],
     chords   |-> [root |-> RC, tip |-> None, mean_geometric |-> None,
                   mean_aerodynamic |-> None],
     symmetric |-> sym,
     Segments  |-> segs,
     areas     |-> [reference |-> None, wetted |-> None],
     aspect_ratio |-> None,
     taper        |-> None,
     sweeps       |-> [quarter_chord |-> None, leading_edge |-> None],
     thickness_to_chord |-> None,
     aerodynamic_center |-> None,
     total_length       |-> None]

\* ------------------------------------------------------------------------
\* The state machine
\* ------------------------------------------------------------------------

Init ==
    /\ wing \in {NewWing(span, RC, sym, segs) :
                    span \in ProjectedSpans, RC \in RootChords,
                    sym \in BOOLEAN, segs \in SegmentLists}
    /\ pc = "ready"
    /\ frame = None
    /\ prev = None

\* wing_segmented_planform(wing), with f the locals of the call: the outputs are
\* packed onto the record passed in, unless an exception leaves it as it was
Call ==
    \E f \in {Locals(wing)} :
        /\ pc' = IF f.raised = "none" THEN "returned" ELSE "raised"
        /\ wing' = IF f.raised = "none" THEN Pack(wing, f) ELSE wing
        /\ frame' = [entry |-> wing, locals |-> f]
        /\ prev' = IF pc = "returned" THEN wing ELSE prev

\* the owner of the record describes the symmetric wing it holds as a wing
\* without symmetry, of the same or of the doubled projected span
Redescribe ==
    \E span \in {wing.spans.projected, Mul(Q(2, 1), wing.spans.projected)} :
        /\ pc = "returned"
        /\ wing.symmetric
        /\ wing' = [wing EXCEPT !.symmetric = FALSE, !.spans.projected = span]
        /\ pc' = "ready"
        /\ prev' = wing
        /\ UNCHANGED frame

Next == Call \/ Redescribe

Spec == Init /\ [][Next]_vars

\* ------------------------------------------------------------------------
\* Vocabulary of the properties
\* ------------------------------------------------------------------------

NSeg == Len(wing.Segments)

Returned == pc = "returned"

\* the input fields of a wing record
Inputs(w) == <<w.spans.projected, w.chords.root, w.symmetric, w.Segments>>

\* the 13 output fields of a wing record
Outputs(w) ==
    <<w.areas.reference, w.areas.wetted, w.aspect_ratio, w.spans.total,
      w.chords.mean_geometric, w.chords.mean_aerodynamic, w.chords.tip, w.taper,
      w.sweeps.quarter_chord, w.sweeps.leading_edge, w.thickness_to_chord,
      w.aerodynamic_center, w.total_length>>

ChordFraction(i) == wing.Segments[i].root_chord_percent

\* semispan = projected_span / (1 + is_symmetric)
SemiSpan == Div(wing.spans.projected, OnePlus(wing.symmetric))

Untapered == NSeg >= 2 /\ \A i \in 1..NSeg : ChordFraction(i) = ChordFraction(1)

FlatSegment(i) ==
    /\ wing.Segments[i].sweeps.quarter_chord = Angle(Zero)
    /\ wing.Segments[i].dihedral_outboard = Angle(Zero)

\* span fractions [0, 1], chord fractions [1, lambda] with 0 < lambda < 1, zero
\* sweep and dihedral
TwoSegmentTrapezoid ==
    /\ NSeg = 2
    /\ ChordFraction(1) = One
    /\ ~Leq(ChordFraction(1), ChordFraction(2))
    /\ FlatSegment(1) /\ FlatSegment(2)

\* ------------------------------------------------------------------------
\* C1
\* ------------------------------------------------------------------------

\* C1: when every segment of the wing has the same chord fraction, every panel
\* takes the substitution A^2 * panel_span_fraction (the general formula gave
\* NaN), and the mean aerodynamic chord is a finite number equal to the chord of
\* the wing, root_chord * chord_fraction, for either value of the symmetry flag.
C1_UntaperedMac ==
    (Returned /\ Untapered) =>
        /\ \A i \in 1..(NSeg - 1) :
              /\ IsNaN(frame.locals.general[i])
              /\ frame.locals.integral[i] =
                    Mul(Sq(frame.locals.A[i]), frame.locals.lengths_ndim[i])
        /\ IsFinite(wing.chords.mean_aerodynamic)
        /\ wing.chords.mean_aerodynamic = Mul(wing.chords.root, ChordFraction(1))

\* ------------------------------------------------------------------------
\* C2
\* ------------------------------------------------------------------------

\* C2: for a two-segment straight trapezoid wing and either value of the symmetry
\* flag, reference_area = semispan * (root_chord + tip_chord) and
\* mean_aerodynamic_chord = (2/3) * root_chord * (1 + l + l^2) / (1 + l), with l
\* the chord fraction of the tip.
C2_TrapezoidClosedForm ==
    (Returned /\ TwoSegmentTrapezoid) =>
        LET l    == ChordFraction(2)
            root == wing.chords.root
        IN  /\ wing.areas.reference = Mul(SemiSpan, Add(root, Mul(l, root)))
            /\ wing.chords.mean_aerodynamic =
                  Div(Mul(Mul(Q(2, 3), root), Add(One, Add(l, Sq(l)))), Add(One, l))

\* ------------------------------------------------------------------------
\* C3
\* ------------------------------------------------------------------------

\* C3: the routine run with is_symmetric = true on a wing, and then with
\* is_symmetric = false on the same root chord and segments described as a wing
\* without symmetry (of the same or of the doubled projected span), gives the
\* same reference_area, the same aspect_ratio and the same mean_aerodynamic_chord.
C3_SymmetryInvariant ==
    (Returned /\ NSeg >= 2 /\ prev # None /\ ~wing.symmetric) =>
        (prev.symmetric =>
            /\ wing.areas.reference = prev.areas.reference
            /\ wing.aspect_ratio = prev.aspect_ratio
            /\ wing.chords.mean_aerodynamic = prev.chords.mean_aerodynamic)

\* ------------------------------------------------------------------------
\* C6
\* ------------------------------------------------------------------------

\* C6: a call on a wing of fewer than 2 segments fails with an error: it never
\* returns a record whose output fields were populated.
C6_FewSegmentsFail ==
    (pc # "ready" /\ NSeg < 2) => (pc = "raised" /\ wing = frame.entry)

\* ------------------------------------------------------------------------
\* C4
\* ------------------------------------------------------------------------

\* C4: whenever the routine returns for a symmetric wing of at least 2 segments,
\* the y component of wing.aerodynamic_center is exactly 0, and its x and z
\* components are those computed before the zeroing.
C4_SymmetricCenterY ==
    (Returned /\ wing.symmetric /\ NSeg >= 2) =>
        /\ wing.aerodynamic_center.ndim = 1
        /\ Len(wing.aerodynamic_center.v) = 3
        /\ wing.aerodynamic_center.v[2] = Zero
        /\ wing.aerodynamic_center.v[1] = frame.locals.ac_before.v[1]
        /\ wing.aerodynamic_center.v[3] = frame.locals.ac_before.v[3]

\* a symmetric wing with sweep and dihedral has returned: the y computed was not
\* zero, the x and z kept are not zero
C4_Witness ==
    /\ Returned /\ wing.symmetric /\ NSeg >= 2
    /\ frame.locals.ac_before.v[2] # Zero
    /\ wing.aerodynamic_center.v[1] # Zero
    /\ wing.aerodynamic_center.v[3] # Zero

\* ------------------------------------------------------------------------
\* C5
\* ------------------------------------------------------------------------

\* C5: a call leaves every input field (and every segment) as it was passed in,
\* the outputs it writes are those a call on a new record of the same inputs
\* writes, and a second call on the record the first call returned leaves every
\* output field equal to its value after the first call.
C5_Idempotent ==
    Returned =>
        /\ Inputs(wing) = Inputs(frame.entry)
        /\ wing = Pack(NewWing(wing.spans.projected, wing.chords.root,
                               wing.symmetric, wing.Segments),
                       Locals(NewWing(wing.spans.projected, wing.chords.root,
                                      wing.symmetric, wing.Segments)))
        /\ (prev # None /\ frame.entry = prev) => Outputs(wing) = Outputs(prev)

\* the second of two calls in a row has returned
C5_Witness ==
    /\ Returned /\ NSeg >= 2
    /\ prev # None /\ frame.entry = prev
    /\ IsFinite(wing.chords.mean_aerodynamic)

\* ------------------------------------------------------------------------
\* C7
\* ------------------------------------------------------------------------

PanelArrays(f) ==
    <<f.lengths_ndim, f.lengths_dim, f.tapers, f.As, f.A_wets, f.lens, f.general,
      f.integral, f.panel_mac, f.le_sweeps, f.dxs, f.dys, f.dzs, f.centroid_args,
      f.Cxys>>

\* C7: a call on a wing of N >= 2 segments raises nothing, every per-panel
\* sequence it computes has length N-1, and every elementwise operation pairs two
\* sequences of the same length (N-1, or N-2 for the terms of the root offsets).
C7_PanelArrayLengths ==
    (pc # "ready" /\ NSeg >= 2) =>
        /\ Returned
        /\ \A k \in 1..Len(PanelArrays(frame.locals)) :
              Len(PanelArrays(frame.locals)[k]) = NSeg - 1
        /\ \A o \in frame.locals.operands :
              o[1] = o[2] /\ o[1] \in {NSeg - 1, NSeg - 2}

\* the call has returned for a wing of two segments: one panel, and offset
\* terms that are empty sequences
C7_Witness ==
    /\ Returned
    /\ NSeg = 2
    /\ Len(frame.locals.dzs) = 1
    /\ <<0, 0>> \in frame.locals.operands

\* ------------------------------------------------------------------------
\* C8
\* ------------------------------------------------------------------------

\* sum over the panels of area[i] * centroid[i][k]
RECURSIVE WeightedSum(_, _, _)
WeightedSum(f, k, i) ==
    IF i = 0 THEN Zero
    ELSE Add(WeightedSum(f, k, i - 1), Mul(f.As[i], f.Cxys[i][k]))

\* C8: the aerodynamic center before the zeroing is
\* sum_i(area[i] * centroid[i]) / (reference_area / 2), which is
\* sum_i(area[i] * centroid[i]) / sum_i(area[i]), so that each component lies
\* between the smallest and the largest of that component over the panel centroids.
C8_AreaWeightedCenter ==
    (Returned /\ NSeg >= 2) =>
        \A k \in 1..3 :
            LET f == frame.locals
                c == f.ac_before.v[k]
            IN  /\ c = Div(WeightedSum(f, k, NSeg - 1), Div(f.ref_area, Q(2, 1)))
                /\ c = Div(WeightedSum(f, k, NSeg - 1), Sum(f.As))
                /\ \E i \in 1..(NSeg - 1) : Leq(f.Cxys[i][k], c)
                /\ \E i \in 1..(NSeg - 1) : Leq(c, f.Cxys[i][k])

\* ------------------------------------------------------------------------
\* C9
\* ------------------------------------------------------------------------

\* sum over the panels j < i of term(j)
RECURSIVE PriorSum(_, _)
PriorSum(terms, i) ==
    IF i <= 1 THEN Zero ELSE Add(PriorSum(terms, i - 1), terms[i - 1])

OwnMac(c0, c1) ==
    Div(Mul(Q(2, 3), Add(Sq(c0), Add(Mul(c0, c1), Sq(c1)))), Add(c0, c1))

\* C10: the MAC handed to segment_centroid for a panel is the panel's own mean
\* aerodynamic chord, whatever the symmetry flag and the number of panels; a
\* two-segment rectangular unswept symmetric wing has aerodynamic_center
\* x = 0.25 * root_chord.
C10_PanelMacIsOwn ==
    (Returned /\ NSeg >= 2) =>
        /\ \A i \in 1..(NSeg - 1) :
              frame.locals.centroid_args[i].mac =
                  OwnMac(frame.locals.chords_dim[i], frame.locals.chords_dim[i + 1])
        /\ (NSeg = 2 /\ Untapered /\ ChordFraction(1) = One /\ wing.symmetric
               /\ FlatSegment(1) /\ FlatSegment(2))
              => wing.aerodynamic_center.v[1] = Mul(Q(1, 4), wing.chords.root)

=============================================================================
